---- MODULE Spec2Model ----
(***************************************************************************)
(* The mutation layer of crm/schema.py: createCustomer,                    *)
(* bulkCreateCustomers, createProduct and createOrder over the three       *)
(* tables Customer, Product and Order.                                     *)
(*                                                                         *)
(* Every database interaction that the code does not put inside one        *)
(* transaction is a step of its own, so the states between two writes of   *)
(* one call are states of the model.  Phones are tuples of one-character   *)
(* strings; prices are integers (hundredths).                              *)
(***************************************************************************)
EXTENDS Integers, Sequences, FiniteSets, TLC

\* ------------------------------------------------------------------ bounds
NumCallers == 2
MaxBatch == 2
MaxCustomers == 3
MaxProducts == 2
MaxOrders == 1
MaxIds == 2

VARIABLES
  customers,    \* rows of Customer: [id, name, email, phone]
  products,     \* rows of Product: [id, price, stock]
  orders,       \* rows of Order: [id, customer, total_amount, products]
  nextId,       \* the tables' id sequences
  pc,           \* each caller's position
  op,           \* the mutation a caller is running
  arg,          \* its input
  loc,          \* its local variables
  result,       \* what the call returned or raised
  emailUnique,  \* whether the Customer table declares email unique
  concurrent,   \* whether calls of different callers may interleave
  faulty        \* whether an insert may raise a storage fault

vars == <<customers, products, orders, nextId, pc, op, arg, loc, result,
          emailUnique, concurrent, faulty>>

store == <<customers, products, orders>>

Callers == 1..NumCallers

\* ------------------------------------------------------------------ phones
Digits == {"0", "1", "2", "3", "4", "5", "6", "7", "8", "9"}

AllDigits(s, lo, hi) == \A i \in lo..hi : s[i] \in Digits

\* \+\d{10,15}
PlusForm(s) ==
  /\ Len(s) >= 11
  /\ Len(s) <= 16
  /\ s[1] = "+"
  /\ AllDigits(s, 2, Len(s))

\* \d{3}-\d{3}-\d{4}
DashForm(s) ==
  /\ Len(s) = 12
  /\ AllDigits(s, 1, 3)
  /\ s[4] = "-"
  /\ AllDigits(s, 5, 7)
  /\ s[8] = "-"
  /\ AllDigits(s, 9, 12)

FullForm(s) == PlusForm(s) \/ DashForm(s)

\* re.match(r'^(...)$', s): Python's $ also matches just before a newline
\* that ends the string.
re_match(s) ==
  \/ FullForm(s)
  \/ /\ Len(s) >= 1
     /\ s[Len(s)] = "\n"
     /\ FullForm(SubSeq(s, 1, Len(s) - 1))

NoPhone == [present |-> FALSE, chars |-> <<>>]
Phone(s) == [present |-> TRUE, chars |-> s]

\* Python truthiness of input.phone: None and "" are both falsy.
Truthy(phone) == phone.present /\ Len(phone.chars) > 0

\* input.phone and not re.match(..., input.phone)
PhoneRejected(phone) == Truthy(phone) /\ ~re_match(phone.chars)

PhoneDash == <<"4", "1", "5", "-", "5", "5", "5", "-", "1", "2", "3", "4">>
PhonePlus == <<"+", "1", "4", "1", "5", "5", "5", "5", "1", "2", "3", "4">>
PhoneShort == <<"1", "2", "3", "4", "5">>
PhoneEmpty == <<>>
PhoneDashNewline == PhoneDash \o <<"\n">>

\* ------------------------------------------------------------------ inputs
CustomerInput(n, e, p) == [name |-> n, email |-> e, phone |-> p]

CustomerInputs ==
  { CustomerInput("Ann", "a@x", NoPhone),
    CustomerInput("Bob", "a@x", Phone(PhoneDash)),
    CustomerInput("Ann", "b@x", Phone(PhonePlus)),
    CustomerInput("Bob", "b@x", Phone(PhoneShort)),
    CustomerInput("Cid", "a@x", Phone(PhoneShort)),
    CustomerInput("Ann", "b@x", Phone(PhoneEmpty)),
    CustomerInput("Bob", "a@x", Phone(PhoneDashNewline)) }

SeqsUpTo(S, n) == UNION { [1..k -> S] : k \in 0..n }

Batches == SeqsUpTo(CustomerInputs, MaxBatch)

Omitted == [kind |-> "omitted", val |-> 0]
Null == [kind |-> "null", val |-> 0]
IntVal(n) == [kind |-> "int", val |-> n]

ProductInput(p, s) == [price |-> p, stock |-> s]

ProductInputs ==
  { ProductInput(-500, Omitted),
    ProductInput(0, IntVal(3)),
    ProductInput(1000, IntVal(-1)),
    ProductInput(-500, IntVal(-1)),
    ProductInput(1000, Omitted),
    ProductInput(1000, IntVal(0)),
    ProductInput(1550, IntVal(3)),
    ProductInput(1550, Null) }

OrderInputs ==
  [customer_id : 1..(MaxCustomers + 1),
   product_ids : SeqsUpTo(1..(MaxProducts + 1), MaxIds)]

Range(s) == { s[i] : i \in 1..Len(s) }

\* ------------------------------------------------------------------- state
NoResult == [status |-> "none", err |-> "", id |-> 0]
Ok(i) == [status |-> "ok", err |-> "", id |-> i]
Raised(e) == [status |-> "error", err |-> e, id |-> 0]

NoArg == [none |-> TRUE]

LocInit ==
  [idx |-> 1, created |-> <<>>, errors |-> <<>>, outcome |-> <<>>,
   txn |-> {}, needs_rollback |-> FALSE, prods |-> {}, total |-> 0, oid |-> 0]

InitStore ==
  /\ customers = {}
  /\ products = {}
  /\ orders = {}
  /\ nextId = [customer |-> 1, product |-> 1, order |-> 1]
  /\ pc = [c \in Callers |-> "idle"]
  /\ op = [c \in Callers |-> "none"]
  /\ arg = [c \in Callers |-> NoArg]
  /\ loc = [c \in Callers |-> LocInit]
  /\ result = [c \in Callers |-> NoResult]

\* One caller at a time, a storage layer that does not fail.
Init ==
  /\ InitStore
  /\ emailUnique \in BOOLEAN
  /\ concurrent = FALSE
  /\ faulty = FALSE

\* Calls of different callers interleave.
InitConc ==
  /\ InitStore
  /\ emailUnique \in BOOLEAN
  /\ concurrent = TRUE
  /\ faulty = FALSE

\* One caller at a time, inserts may raise a storage fault.
InitFault ==
  /\ InitStore
  /\ emailUnique \in BOOLEAN
  /\ concurrent = FALSE
  /\ faulty = TRUE

\* The catalogue and the orders start empty; the customers are those that
\* createCustomer leaves after none, one or two successful calls.
SeedCustomers ==
  { {},
    {[id |-> 1, name |-> "Ann", email |-> "a@x", phone |-> NoPhone]},
    {[id |-> 1, name |-> "Ann", email |-> "a@x", phone |-> NoPhone],
     [id |-> 2, name |-> "Ann", email |-> "b@x", phone |-> Phone(PhonePlus)]} }

InitOrders ==
  /\ customers \in SeedCustomers
  /\ products = {}
  /\ orders = {}
  /\ nextId = [customer |-> Cardinality(customers) + 1, product |-> 1, order |-> 1]
  /\ pc = [c \in Callers |-> "idle"]
  /\ op = [c \in Callers |-> "none"]
  /\ arg = [c \in Callers |-> NoArg]
  /\ loc = [c \in Callers |-> LocInit]
  /\ result = [c \in Callers |-> NoResult]
  /\ emailUnique \in BOOLEAN
  /\ concurrent = FALSE
  /\ faulty = FALSE

CanStart(c) == pc[c] = "idle" /\ (concurrent \/ c = 1)

Begin(c, o, a) ==
  /\ op' = [op EXCEPT ![c] = o]
  /\ arg' = [arg EXCEPT ![c] = a]

Finish(c, r) ==
  /\ pc' = [pc EXCEPT ![c] = "done"]
  /\ result' = [result EXCEPT ![c] = r]

\* Whether this insert raises a storage fault.
InsertFaults == IF faulty THEN BOOLEAN ELSE {FALSE}

\* ---------------------------------------------------------------- customer
\* Variant: the lookup compares the wrong column.
EmailExistsByName(c, email) == \E r \in customers : r.name = email

\* Variant: the lookup misses the rows of the caller's open transaction.
EmailExistsCommittedOnly(c, email) ==
  \E r \in customers : r.id \notin loc[c].txn /\ r.email = email

\* Customer.objects.filter(email=...).exists(), on the caller's connection:
\* rows the caller inserted in its open transaction are seen.
EmailExists(c, email) == \E r \in customers : r.email = email

\* The table's own unique constraint on email, when it declares one.
UniqueViolation(email) == emailUnique /\ \E r \in customers : r.email = email

CustomerRow(i, inp) ==
  [id |-> i, name |-> inp.name, email |-> inp.email, phone |-> inp.phone]

InsertCustomer(inp) ==
  /\ customers' = customers \cup {CustomerRow(nextId.customer, inp)}
  /\ nextId' = [nextId EXCEPT !.customer = @ + 1]

PendingInserts == Cardinality({ d \in Callers : pc[d] = "cc_insert" })

\* CreateCustomer.mutate, the two checks.
CreateCustomerCheck(c) ==
  \E inp \in CustomerInputs :
    /\ CanStart(c)
    /\ (nextId.customer - 1) + PendingInserts < MaxCustomers
    /\ Begin(c, "createCustomer", inp)
    /\ IF EmailExists(c, inp.email)
         THEN Finish(c, Raised("Email already exists"))
         ELSE IF PhoneRejected(inp.phone)
           THEN Finish(c, Raised("Invalid phone format"))
           ELSE /\ pc' = [pc EXCEPT ![c] = "cc_insert"]
                /\ UNCHANGED result
    /\ UNCHANGED <<store, nextId, loc, emailUnique, concurrent, faulty>>

\* Variant: the insert tests the email again, atomically with the write.
CreateCustomerInsertRechecked(c) ==
  /\ pc[c] = "cc_insert"
  /\ IF EmailExists(c, arg[c].email)
       THEN /\ Finish(c, Raised("Email already exists"))
            /\ UNCHANGED <<customers, nextId>>
       ELSE /\ InsertCustomer(arg[c])
            /\ Finish(c, Ok(nextId.customer))
  /\ UNCHANGED <<products, orders, op, arg, loc, emailUnique, concurrent, faulty>>

\* CreateCustomer.mutate, Customer.objects.create and the return.
CreateCustomerInsert(c) ==
  /\ pc[c] = "cc_insert"
  /\ \E f \in InsertFaults :
       IF f
         THEN /\ Finish(c, Raised("DatabaseError"))
              /\ UNCHANGED <<customers, nextId>>
         ELSE IF UniqueViolation(arg[c].email)
           THEN /\ Finish(c, Raised("IntegrityError"))
                /\ UNCHANGED <<customers, nextId>>
           ELSE /\ InsertCustomer(arg[c])
                /\ Finish(c, Ok(nextId.customer))
  /\ UNCHANGED <<products, orders, op, arg, loc, emailUnique, concurrent, faulty>>

\* -------------------------------------------------------------------- bulk
DupMessage(e) == [kind |-> "Email already exists", who |-> e.email]
PhoneMessage(e) == [kind |-> "Invalid phone format", who |-> e.name]
FaultMessage(k) == [kind |-> k, who |-> ""]

\* BulkCreateCustomers.mutate up to entering the atomic block.
BulkStart(c) ==
  \E batch \in Batches :
    /\ CanStart(c)
    /\ (nextId.customer - 1) + Len(batch) <= MaxCustomers
    /\ Begin(c, "bulkCreateCustomers", batch)
    /\ pc' = [pc EXCEPT ![c] = "bc_loop"]
    /\ UNCHANGED <<store, nextId, loc, result, emailUnique, concurrent, faulty>>

\* Variant: a failing entry ends the loop.
FailedAborts(c, msg, out, broken) ==
  /\ loc' = [loc EXCEPT ![c].idx = Len(arg[c]) + 1,
                        ![c].errors = Append(@, msg),
                        ![c].outcome = Append(@, out),
                        ![c].needs_rollback = @ \/ broken]
  /\ UNCHANGED <<customers, nextId>>

\* except Exception as e: errors.append(str(e)), and on to the next entry.
Failed(c, msg, out, broken) ==
  /\ loc' = [loc EXCEPT ![c].idx = @ + 1,
                        ![c].errors = Append(@, msg),
                        ![c].outcome = Append(@, out),
                        ![c].needs_rollback = @ \/ broken]
  /\ UNCHANGED <<customers, nextId>>

\* One iteration of the loop: the try block and its except Exception.
BulkEntry(c) ==
  /\ pc[c] = "bc_loop"
  /\ loc[c].idx <= Len(arg[c])
  /\ LET e == arg[c][loc[c].idx] IN
     \E f \in InsertFaults :
       IF loc[c].needs_rollback
         THEN Failed(c, FaultMessage("TransactionManagementError"), "broken", FALSE)
         ELSE IF EmailExists(c, e.email)
           THEN Failed(c, DupMessage(e), "dup", FALSE)
           ELSE IF PhoneRejected(e.phone)
             THEN Failed(c, PhoneMessage(e), "phone", FALSE)
             ELSE IF f
               THEN Failed(c, FaultMessage("DatabaseError"), "fault", TRUE)
               ELSE IF UniqueViolation(e.email)
                 THEN Failed(c, FaultMessage("IntegrityError"), "fault", TRUE)
                 ELSE /\ InsertCustomer(e)
                      /\ loc' = [loc EXCEPT ![c].idx = @ + 1,
                                            ![c].created = Append(@, nextId.customer),
                                            ![c].outcome = Append(@, "created"),
                                            ![c].txn = @ \cup {nextId.customer}]
  /\ UNCHANGED <<products, orders, pc, op, arg, result, emailUnique, concurrent, faulty>>

\* Leaving the atomic block (commit, or rollback of a transaction a database
\* error has marked) and the return.
BulkExit(c) ==
  /\ pc[c] = "bc_loop"
  /\ loc[c].idx > Len(arg[c])
  /\ customers' = IF loc[c].needs_rollback
                    THEN { r \in customers : r.id \notin loc[c].txn }
                    ELSE customers
  /\ loc' = [loc EXCEPT ![c].txn = {}]
  /\ Finish(c, Ok(0))
  /\ UNCHANGED <<products, orders, nextId, op, arg, emailUnique, concurrent, faulty>>

\* ----------------------------------------------------------------- product
DefaultStock == 0

\* Variant: a price of zero is let through.
PriceInvalidStrict(price) == price < 0

\* input.price <= 0
PriceInvalid(price) == price <= 0

\* input.stock is not None and input.stock < 0
StockInvalid(stock) == stock.kind = "int" /\ stock.val < 0

\* stock is declared without null=True: an explicit null violates NOT NULL.
NotNullViolation(stock) == stock.kind = "null"

ProductRow(i, inp) ==
  [id |-> i, price |-> inp.price,
   stock |-> IF inp.stock.kind = "omitted" THEN DefaultStock ELSE inp.stock.val]

\* CreateProduct.mutate.
CreateProduct(c) ==
  \E inp \in ProductInputs :
    /\ CanStart(c)
    /\ nextId.product <= MaxProducts
    /\ Begin(c, "createProduct", inp)
    /\ \E f \in InsertFaults :
         IF PriceInvalid(inp.price)
           THEN /\ Finish(c, Raised("Price must be positive"))
                /\ UNCHANGED <<products, nextId>>
           ELSE IF StockInvalid(inp.stock)
             THEN /\ Finish(c, Raised("Stock cannot be negative"))
                  /\ UNCHANGED <<products, nextId>>
             ELSE IF f
               THEN /\ Finish(c, Raised("DatabaseError"))
                    /\ UNCHANGED <<products, nextId>>
               ELSE IF NotNullViolation(inp.stock)
                 THEN /\ Finish(c, Raised("IntegrityError"))
                      /\ UNCHANGED <<products, nextId>>
                 ELSE /\ products' = products \cup {ProductRow(nextId.product, inp)}
                      /\ nextId' = [nextId EXCEPT !.product = @ + 1]
                      /\ Finish(c, Ok(nextId.product))
    /\ UNCHANGED <<customers, orders, loc, emailUnique, concurrent, faulty>>

\* ------------------------------------------------------------------- order
RECURSIVE SumPrices(_)
SumPrices(S) ==
  IF S = {} THEN 0
  ELSE LET p == CHOOSE x \in S : TRUE IN p.price + SumPrices(S \ {p})

\* The prices of the listed ids, repeats included.
RECURSIVE SumListed(_)
SumListed(ids) ==
  IF ids = <<>> THEN 0
  ELSE SumPrices({ p \in products : p.id = Head(ids) }) + SumListed(Tail(ids))

CustomerFound(i) == \E r \in customers : r.id = i

\* Product.objects.filter(id__in=product_ids)
Resolve(ids) == { p \in products : p.id \in Range(ids) }

\* Variant: the total counts a product once per listed id.
TotalOfListed(ids) == SumListed(ids)

\* sum(p.price for p in products)
Total(ids) == SumPrices(Resolve(ids))

\* CreateOrder.mutate up to the computation of the total.
CreateOrderResolve(c) ==
  \E inp \in OrderInputs :
    /\ CanStart(c)
    /\ nextId.order <= MaxOrders
    /\ Begin(c, "createOrder", inp)
    /\ IF ~CustomerFound(inp.customer_id)
         THEN /\ Finish(c, Raised("Invalid customer ID"))
              /\ UNCHANGED loc
         ELSE IF Resolve(inp.product_ids) = {}
           THEN /\ Finish(c, Raised("Invalid product IDs"))
                /\ UNCHANGED loc
           ELSE IF Cardinality(Resolve(inp.product_ids)) = 0
             THEN /\ Finish(c, Raised("At least one product must be selected"))
                  /\ UNCHANGED loc
             ELSE /\ pc' = [pc EXCEPT ![c] = "co_create"]
                  /\ loc' = [loc EXCEPT ![c].prods = Resolve(inp.product_ids),
                                        ![c].total = Total(inp.product_ids)]
                  /\ UNCHANGED result
    /\ UNCHANGED <<store, nextId, emailUnique, concurrent, faulty>>

\* Order.objects.create(customer=..., total_amount=..., order_date=...)
CreateOrderInsert(c) ==
  /\ pc[c] = "co_create"
  /\ \E f \in InsertFaults :
       IF f
         THEN /\ Finish(c, Raised("DatabaseError"))
              /\ UNCHANGED <<orders, nextId, loc>>
         ELSE /\ orders' = orders \cup
                   {[id |-> nextId.order, customer |-> arg[c].customer_id,
                     total_amount |-> loc[c].total, products |-> {}]}
              /\ nextId' = [nextId EXCEPT !.order = @ + 1]
              /\ loc' = [loc EXCEPT ![c].oid = nextId.order]
              /\ pc' = [pc EXCEPT ![c] = "co_set"]
              /\ UNCHANGED result
  /\ UNCHANGED <<customers, products, op, arg, emailUnique, concurrent, faulty>>

\* order.products.set(products) and the return.
CreateOrderSet(c) ==
  /\ pc[c] = "co_set"
  /\ \E f \in InsertFaults :
       IF f
         THEN /\ Finish(c, Raised("DatabaseError"))
              /\ UNCHANGED orders
         ELSE /\ orders' = { IF o.id = loc[c].oid
                               THEN [o EXCEPT !.products = { p.id : p \in loc[c].prods }]
                               ELSE o : o \in orders }
              /\ Finish(c, Ok(loc[c].oid))
  /\ UNCHANGED <<customers, products, nextId, op, arg, loc, emailUnique, concurrent, faulty>>

\* ------------------------------------------------------------------ return
\* The caller has its answer and may call again.
Return(c) ==
  /\ pc[c] = "done"
  /\ pc' = [pc EXCEPT ![c] = "idle"]
  /\ op' = [op EXCEPT ![c] = "none"]
  /\ arg' = [arg EXCEPT ![c] = NoArg]
  /\ loc' = [loc EXCEPT ![c] = LocInit]
  /\ result' = [result EXCEPT ![c] = NoResult]
  /\ UNCHANGED <<store, nextId, emailUnique, concurrent, faulty>>

Next ==
  \E c \in Callers :
    \/ CreateCustomerCheck(c)
    \/ CreateCustomerInsert(c)
    \/ BulkStart(c)
    \/ BulkEntry(c)
    \/ BulkExit(c)
    \/ CreateProduct(c)
    \/ CreateOrderResolve(c)
    \/ CreateOrderInsert(c)
    \/ CreateOrderSet(c)
    \/ Return(c)

\* The customer writer alone.
NextCustomers ==
  \E c \in Callers :
    \/ CreateCustomerCheck(c)
    \/ CreateCustomerInsert(c)
    \/ BulkStart(c)
    \/ BulkEntry(c)
    \/ BulkExit(c)
    \/ Return(c)

\* The product writer and the order writer.
NextOrders ==
  \E c \in Callers :
    \/ CreateProduct(c)
    \/ CreateOrderResolve(c)
    \/ CreateOrderInsert(c)
    \/ CreateOrderSet(c)
    \/ Return(c)

NextConc ==
  \E c \in Callers :
    \/ CreateCustomerCheck(c)
    \/ CreateCustomerInsert(c)
    \/ Return(c)

NextFault ==
  \E c \in Callers :
    \/ CreateCustomerCheck(c)
    \/ CreateCustomerInsert(c)
    \/ BulkStart(c)
    \/ BulkEntry(c)
    \/ BulkExit(c)
    \/ Return(c)

Spec == Init /\ [][Next]_vars

SpecCustomers == Init /\ [][NextCustomers]_vars

SpecOrders == InitOrders /\ [][NextOrders]_vars

SpecConc == InitConc /\ [][NextConc]_vars

SpecFault == InitFault /\ [][NextFault]_vars

\* ================================================================== claims
Done(c, o) == pc[c] = "done" /\ op[c] = o

ProductIds == { p.id : p \in products }

\* The emails persisted when caller c's batch began: in a run without
\* interleaving, the rows the batch did not create.
StartEmails(c) ==
  { r.email : r \in { x \in customers : x.id \notin Range(loc[c].created) } }

\* A phone that is present and is not of one of the two accepted formats.
Malformed(phone) == phone.present /\ ~FullForm(phone.chars)

\* C1: after any sequence of non-interleaved createCustomer and
\* bulkCreateCustomers calls (and in every state on the way), no two persisted
\* customers have the same email.
C1_UniqueEmails ==
  \A r \in customers : \A s \in customers : r.email = s.email => r.id = s.id

C1_Witness ==
  /\ ~emailUnique
  /\ Cardinality(customers) = 2
  /\ \E c \in Callers :
       /\ Done(c, "createCustomer")
       /\ result[c] = Raised("Email already exists")

\* C2 (as claimed): in every reachable state every persisted order references
\* an existing customer and at least one existing product.
C2_AsClaimed ==
  \A o \in orders :
    /\ CustomerFound(o.customer)
    /\ o.products # {}
    /\ o.products \subseteq ProductIds

\* C3 (as claimed): when the insert of one entry of a batch raises a storage
\* fault, the error propagates out of bulkCreateCustomers and no customer of
\* the batch remains persisted.
C3_AsClaimed ==
  \A c \in Callers :
    (Done(c, "bulkCreateCustomers") /\ "fault" \in Range(loc[c].outcome))
      => /\ result[c].status = "error"
         /\ \A r \in customers : r.id \notin Range(loc[c].created)

\* Whether entry i of caller c's batch finds its email taken, and whether it
\* passes both validations, by the store the batch began with and the entries
\* before it.
RECURSIVE EmailTaken(_, _)
EmailTaken(c, i) ==
  \/ arg[c][i].email \in StartEmails(c)
  \/ \E j \in 1..(i - 1) :
       /\ arg[c][j].email = arg[c][i].email
       /\ ~EmailTaken(c, j)
       /\ ~PhoneRejected(arg[c][j].phone)

Passes(c, i) == ~EmailTaken(c, i) /\ ~PhoneRejected(arg[c][i].phone)

Indices(c) == [i \in 1..Len(arg[c]) |-> i]
PassIdx(c) == SelectSeq(Indices(c), LAMBDA i : Passes(c, i))
FailIdx(c) == SelectSeq(Indices(c), LAMBDA i : ~Passes(c, i))

ExpectedMessage(c, i) ==
  IF EmailTaken(c, i) THEN DupMessage(arg[c][i]) ELSE PhoneMessage(arg[c][i])

\* C4: bulkCreateCustomers attempts every entry in input order, returns, and
\* its created list is exactly the entries that passed both validations, in
\* input order and persisted, its errors list exactly one message per failing
\* entry, in input order; the two lengths add up to the number of entries.
C4_BulkPartialFailure ==
  \A c \in Callers :
    Done(c, "bulkCreateCustomers") =>
      /\ result[c].status = "ok"
      /\ Len(loc[c].outcome) = Len(arg[c])
      /\ Len(loc[c].created) = Len(PassIdx(c))
      /\ \A k \in 1..Len(loc[c].created) :
           CustomerRow(loc[c].created[k], arg[c][PassIdx(c)[k]]) \in customers
      /\ \A k \in 1..(Len(loc[c].created) - 1) :
           loc[c].created[k] < loc[c].created[k + 1]
      /\ loc[c].errors = [k \in 1..Len(FailIdx(c)) |-> ExpectedMessage(c, FailIdx(c)[k])]
      /\ Len(loc[c].created) + Len(loc[c].errors) = Len(arg[c])

C4_Witness ==
  \E c \in Callers :
    /\ Done(c, "bulkCreateCustomers")
    /\ Len(arg[c]) = 2
    /\ loc[c].outcome = <<"phone", "created">>
    /\ Len(loc[c].errors) = 1

\* C5 (as claimed): a createCustomer whose email is already present or whose
\* phone is malformed, a createProduct with price <= 0 or stock < 0, and a
\* createOrder whose customer does not exist or none of whose product ids
\* resolves, returns an error at once and leaves the three tables unchanged.
C5_AsClaimed ==
  [][\A c \in Callers :
       (pc[c] = "idle" /\ pc'[c] # "idle") =>
         LET o == op'[c]
             a == arg'[c]
             invalid ==
               \/ /\ o = "createCustomer"
                  /\ (EmailExists(c, a.email) \/ Malformed(a.phone))
               \/ /\ o = "createProduct"
                  /\ (a.price <= 0 \/ (a.stock.kind = "int" /\ a.stock.val < 0))
               \/ /\ o = "createOrder"
                  /\ (~CustomerFound(a.customer_id) \/ Resolve(a.product_ids) = {})
         IN invalid =>
              /\ pc'[c] = "done"
              /\ result'[c].status = "error"
              /\ UNCHANGED store]_vars

\* The single-record part of C5 with the phone test read as the code makes it
\* (a falsy phone is not tested, $ accepts a final newline): this one holds.
C5_WithCodePhoneTest ==
  [][\A c \in Callers :
       (pc[c] = "idle" /\ pc'[c] # "idle") =>
         LET o == op'[c]
             a == arg'[c]
             invalid ==
               \/ /\ o = "createCustomer"
                  /\ (EmailExists(c, a.email) \/ PhoneRejected(a.phone))
               \/ /\ o = "createProduct"
                  /\ (a.price <= 0 \/ (a.stock.kind = "int" /\ a.stock.val < 0))
               \/ /\ o = "createOrder"
                  /\ (~CustomerFound(a.customer_id) \/ Resolve(a.product_ids) = {})
         IN invalid =>
              /\ pc'[c] = "done"
              /\ result'[c].status = "error"
              /\ UNCHANGED store]_vars

\* C6 (as claimed): every persisted customer's phone is absent or of one of the
\* two accepted formats; the empty string is never persisted.
C6_AsClaimed ==
  \A r \in customers : r.phone.present => FullForm(r.phone.chars)

RECURSIVE SumUpTo(_, _)
SumUpTo(ids, k) ==
  IF k = 0 THEN 0
  ELSE SumUpTo(ids, k - 1) +
       (IF k \in Range(ids) /\ k \in ProductIds
          THEN (CHOOSE p \in products : p.id = k).price
          ELSE 0)

\* C7: for an existing customer, createOrder fails with "Invalid product IDs"
\* exactly when no listed id resolves; otherwise it succeeds, the order is
\* linked to exactly the set of resolved products (unresolved ids dropped,
\* repeated ids once) and its total_amount is the sum of their prices.
C7_OrderTotals ==
  \A c \in Callers :
    (Done(c, "createOrder") /\ CustomerFound(arg[c].customer_id)) =>
      LET ids == arg[c].product_ids
          resolved == Range(ids) \cap ProductIds
      IN /\ (resolved = {}) <=> (result[c] = Raised("Invalid product IDs"))
         /\ (resolved # {}) <=> (result[c].status = "ok")
         /\ resolved # {} =>
              \E o \in orders :
                /\ o.id = result[c].id
                /\ o.customer = arg[c].customer_id
                /\ o.products = resolved
                /\ o.total_amount = SumUpTo(ids, nextId.product - 1)

C7_Witness ==
  \E c \in Callers :
    /\ Done(c, "createOrder")
    /\ result[c].status = "ok"
    /\ Len(arg[c].product_ids) = 2
    /\ arg[c].product_ids[1] \in ProductIds
    /\ arg[c].product_ids[2] \notin ProductIds
    /\ \E o \in orders : o.id = result[c].id /\ o.total_amount = 1550

\* C8: every persisted product has price > 0 and stock >= 0; createProduct
\* with price <= 0 fails with "Price must be positive", with a supplied
\* stock < 0 it fails (with "Stock cannot be negative" when the price is
\* valid), and with stock omitted the product is persisted with stock 0.
C8_ProductInvariants ==
  /\ \A p \in products : p.price > 0 /\ p.stock >= 0
  /\ \A c \in Callers :
       Done(c, "createProduct") =>
         LET a == arg[c] IN
         /\ a.price <= 0 => result[c] = Raised("Price must be positive")
         /\ (a.stock.kind = "int" /\ a.stock.val < 0) =>
              /\ result[c].status = "error"
              /\ a.price > 0 => result[c] = Raised("Stock cannot be negative")
         /\ (a.price > 0 /\ a.stock.kind = "omitted") =>
              /\ result[c].status = "ok"
              /\ [id |-> result[c].id, price |-> a.price, stock |-> 0] \in products

C8_Witness ==
  \E c \in Callers :
    /\ Done(c, "createProduct")
    /\ arg[c].stock.kind = "omitted"
    /\ result[c].status = "ok"
    /\ \E p \in products : p.id = result[c].id /\ p.stock = 0

\* C9 (as claimed): two entries of one batch with the same email that no
\* customer persisted before the batch has both pass the uniqueness pre-check.
C9_AsClaimed ==
  \A c \in Callers :
    op[c] = "bulkCreateCustomers" =>
      \A j \in 1..Len(loc[c].outcome) : \A i \in 1..(j - 1) :
        (arg[c][i].email = arg[c][j].email /\ arg[c][i].email \notin StartEmails(c))
          => (loc[c].outcome[i] # "dup" /\ loc[c].outcome[j] # "dup")

\* C9 (amended): an entry fails the uniqueness pre-check exactly when its
\* email is that of a customer persisted before the batch or of an earlier
\* entry of the same batch that was created; so of two entries with the same
\* new email the second is rejected once the first is created, whether or not
\* the storage layer enforces uniqueness.
C9_PrecheckSeesBatch ==
  \A c \in Callers :
    op[c] = "bulkCreateCustomers" =>
      \A j \in 1..Len(loc[c].outcome) :
        (loc[c].outcome[j] = "dup") <=>
          \/ arg[c][j].email \in StartEmails(c)
          \/ \E i \in 1..(j - 1) :
               /\ arg[c][i].email = arg[c][j].email
               /\ loc[c].outcome[i] = "created"

C9_Witness ==
  \E c \in Callers :
    /\ ~emailUnique
    /\ Done(c, "bulkCreateCustomers")
    /\ Len(arg[c]) = 2
    /\ arg[c][1].email = arg[c][2].email
    /\ loc[c].outcome = <<"created", "dup">>
    /\ Cardinality(customers) = 1

\* C10: the insert of createCustomer does not look at the store again: when
\* the storage layer does not enforce uniqueness, every caller that passed the
\* existence check persists its customer, whatever another caller inserted in
\* between; two callers that both passed the check for one new email leave two
\* customers with that email.
C10_CheckThenAct ==
  [][\A c \in Callers :
       (pc[c] = "cc_insert" /\ pc'[c] = "done" /\ ~emailUnique) =>
         /\ result'[c].status = "ok"
         /\ CustomerRow(result'[c].id, arg[c]) \in customers' \ customers]_vars

C10_Witness ==
  /\ ~emailUnique
  /\ concurrent
  /\ \E r \in customers : \E s \in customers : r.email = s.email /\ r.id # s.id

====
